---- MODULE Spec2Model ----
(***************************************************************************)
(* slicecap: slice a pcap file into N fragments at guessed packet-header   *)
(* boundaries and pipe every fragment, prefixed with the global header,    *)
(* into one shell command per fragment run from a multiprocessing pool.    *)
(*                                                                         *)
(* Bytes are naturals 0..255 and a file is a sequence of bytes; the byte   *)
(* at file offset o is infile[o + 1].  A 32-bit field is kept as the pair  *)
(* <<high 16 bits, low 16 bits>> so that values such as 0xa1b2c3d4 stay    *)
(* exact; Python's integers are unbounded, so no arithmetic wraps.         *)
(***************************************************************************)
EXTENDS Integers, Sequences, FiniteSets, TLC

(***************************************************************************)
(* Bounds of the model.                                                    *)
(***************************************************************************)
MaxRecords == 3
MaxNslice == 5
MaxCpu == 2

(***************************************************************************)
(* Sequences and unbounded-integer helpers.                                *)
(***************************************************************************)
Min(a, b) == IF a < b THEN a ELSE b

Max(a, b) == IF a < b THEN b ELSE a

\* Python's data[lo:hi] for 0 <= lo, on a 0-based byte string.
Slice(data, lo, hi) == SubSeq(data, lo + 1, Min(hi, Len(data)))

\* Python's a // b (floor division) for a >= 0 and b # 0.
FloorDiv(a, b) == IF b > 0 THEN a \div b ELSE 0 - ((a + (0 - b) - 1) \div (0 - b))

Repeat(b, n) == [i \in 1..n |-> b]

RECURSIVE Sum(_)
Sum(s) == IF s = << >> THEN 0 ELSE Head(s) + Sum(Tail(s))

\* An unsigned 32-bit value v as <<v \div 65536, v % 65536>>.
U32(v) == <<v \div 65536, v % 65536>>

U32Lt(x, y) == x[1] < y[1] \/ (x[1] = y[1] /\ x[2] < y[2])

\* x + k for an integer k, as a pair whose low half stays in 0..65535.
U32Plus(x, k) == <<x[1] + ((x[2] + k) \div 65536), (x[2] + k) % 65536>>

\* The value of a pair that is known to fit an integer of the checker.
ToInt(x) == x[1] * 65536 + x[2]

(***************************************************************************)
(* struct packing: '!' is big-endian, '<' little-endian, standard sizes.   *)
(***************************************************************************)
BigEndian == "!"

LittleEndian == "<"

\* struct.pack(byte_order + 'H', v)
Pack16(byte_order, v) ==
    IF byte_order = BigEndian THEN <<v \div 256, v % 256>> ELSE <<v % 256, v \div 256>>

\* struct.unpack(byte_order + 'H', b)
Unpack16(byte_order, b) ==
    IF byte_order = BigEndian THEN b[1] * 256 + b[2] ELSE b[2] * 256 + b[1]

\* struct.pack(byte_order + 'L', x)
Pack32(byte_order, x) ==
    IF byte_order = BigEndian
    THEN <<x[1] \div 256, x[1] % 256, x[2] \div 256, x[2] % 256>>
    ELSE <<x[2] % 256, x[2] \div 256, x[1] % 256, x[1] \div 256>>

\* struct.unpack(byte_order + 'L', b)
Unpack32(byte_order, b) ==
    IF byte_order = BigEndian
    THEN <<b[1] * 256 + b[2], b[3] * 256 + b[4]>>
    ELSE <<b[4] * 256 + b[3], b[2] * 256 + b[1]>>

\* struct.unpack(byte_order + 'l', b): two's complement, the sign carried by
\* the high half.
UnpackS32(byte_order, b) ==
    LET u == Unpack32(byte_order, b)
    IN  IF u[1] >= 32768 THEN <<u[1] - 65536, u[2]>> ELSE u

\* struct.pack(byte_order + 'l', x)
PackS32(byte_order, x) ==
    Pack32(byte_order, IF x[1] < 0 THEN <<x[1] + 65536, x[2]>> ELSE x)

(***************************************************************************)
(* class PcapFileHeader                                                    *)
(***************************************************************************)
MagicBig == <<161, 178, 195, 212>>

MagicLittle == <<212, 195, 178, 161>>

DefaultSnaplen == 9000

\* PcapFileHeader.__init__: no _magic attribute exists before unpack_header.
NewFileHeader ==
    [magic |-> << >>, byte_order |-> BigEndian, version_major |-> 0,
     version_minor |-> 0, thiszone |-> U32(0), sigfigs |-> U32(0),
     snaplen |-> U32(0), network |-> U32(0)]

supported_version_major_only(major, minor) == major = 2

\* Version 2.4 is the only version supported.
supported_version(major, minor) == major = 2 /\ minor = 4

effective_snaplen_as_declared(declared) == declared

\* A declared snaplen of 0 is replaced by the default.
effective_snaplen(declared) == IF declared = U32(0) THEN U32(DefaultSnaplen) ELSE declared

\* PcapFileHeader.unpack_header(data): the header it leaves, or the exception.
FileHeader_unpack_header(data) ==
    LET magic == Slice(data, 0, 4)
        byte_order == IF magic = MagicBig THEN BigEndian ELSE LittleEndian
        rest == Slice(data, 4, Len(data))
        declared == Unpack32(byte_order, SubSeq(rest, 13, 16))
        hdr == [magic |-> magic,
                byte_order |-> byte_order,
                version_major |-> Unpack16(byte_order, SubSeq(rest, 1, 2)),
                version_minor |-> Unpack16(byte_order, SubSeq(rest, 3, 4)),
                thiszone |-> UnpackS32(byte_order, SubSeq(rest, 5, 8)),
                sigfigs |-> Unpack32(byte_order, SubSeq(rest, 9, 12)),
                snaplen |-> effective_snaplen(declared),
                network |-> Unpack32(byte_order, SubSeq(rest, 17, 20))]
    IN  IF Len(magic) # 4 THEN [error |-> "struct.error", hdr |-> NewFileHeader]
        ELSE IF magic # MagicBig /\ magic # MagicLittle
        THEN [error |-> "ValueError", hdr |-> NewFileHeader]
        ELSE IF Len(rest) # 20 THEN [error |-> "struct.error", hdr |-> NewFileHeader]
        ELSE IF ~supported_version(hdr.version_major, hdr.version_minor)
        THEN [error |-> "ValueError", hdr |-> NewFileHeader]
        ELSE [error |-> "none", hdr |-> hdr]

pack_header_big_magic(h) ==
    MagicBig \o Pack16(h.byte_order, h.version_major)
             \o Pack16(h.byte_order, h.version_minor)
             \o PackS32(h.byte_order, h.thiszone)
             \o Pack32(h.byte_order, h.sigfigs)
             \o Pack32(h.byte_order, h.snaplen)
             \o Pack32(h.byte_order, h.network)

\* PcapFileHeader.pack_header()
pack_header(h) ==
    h.magic \o Pack16(h.byte_order, h.version_major)
            \o Pack16(h.byte_order, h.version_minor)
            \o PackS32(h.byte_order, h.thiszone)
            \o Pack32(h.byte_order, h.sigfigs)
            \o Pack32(h.byte_order, h.snaplen)
            \o Pack32(h.byte_order, h.network)

(***************************************************************************)
(* class PcapPkthdr                                                        *)
(***************************************************************************)
\* PcapPkthdr.unpack_header(data, byte_order) on 16 bytes.
Pkthdr_unpack_header(data, byte_order) ==
    [tv_sec |-> Unpack32(byte_order, SubSeq(data, 1, 4)),
     tv_usec |-> Unpack32(byte_order, SubSeq(data, 5, 8)),
     caplen |-> Unpack32(byte_order, SubSeq(data, 9, 12)),
     len |-> Unpack32(byte_order, SubSeq(data, 13, 16))]

(***************************************************************************)
(* Capture files the runs are given.  A capture is the 24-byte global      *)
(* header followed by records; a record is a 16-byte pkthdr and caplen     *)
(* payload bytes.  A record shape is <<seconds since the previous record,  *)
(* payload kind>>.                                                         *)
(***************************************************************************)
GlobalHeaderBytes(magic, byte_order, major, minor, snaplen) ==
    magic \o Pack16(byte_order, major) \o Pack16(byte_order, minor)
          \o PackS32(byte_order, U32(0)) \o Pack32(byte_order, U32(0))
          \o Pack32(byte_order, U32(snaplen)) \o Pack32(byte_order, U32(1))

PkthdrBytes(byte_order, sec, caplen) ==
    Pack32(byte_order, U32(sec)) \o Pack32(byte_order, U32(0))
        \o Pack32(byte_order, U32(caplen)) \o Pack32(byte_order, U32(caplen))

\* "fill": 8 bytes that never look like a pkthdr; "fake": 40 such bytes and 16
\* payload bytes that read as a pkthdr 15 seconds after the record; "stamp": 16
\* payload bytes that read as a pkthdr 2 seconds and 500000 microseconds after
\* the record.
Payload(kind, byte_order, sec) ==
    CASE kind = "none" -> << >>
      [] kind = "fill" -> Repeat(255, 8)
      [] kind = "fake" -> Repeat(255, 40) \o PkthdrBytes(byte_order, sec + 15, 0)
      [] kind = "stamp" -> Pack32(byte_order, U32(sec + 2)) \o Pack32(byte_order, U32(500000))
                              \o Pack32(byte_order, U32(0)) \o Pack32(byte_order, U32(0))

RECURSIVE RecordsBytes(_, _, _)
RecordsBytes(byte_order, sec, shapes) ==
    IF shapes = << >> THEN << >>
    ELSE LET body == Payload(Head(shapes)[2], byte_order, sec)
             rest == Tail(shapes)
         IN  PkthdrBytes(byte_order, sec, Len(body)) \o body
                \o (IF rest = << >> THEN << >>
                    ELSE RecordsBytes(byte_order, sec + Head(rest)[1], rest))

Capture(byte_order, first, shapes) ==
    GlobalHeaderBytes(IF byte_order = BigEndian THEN MagicBig ELSE MagicLittle,
                      byte_order, 2, 4, 65535)
        \o RecordsBytes(byte_order, first, shapes)

\* Any 24 bytes laid out as a global header: the magic as given, the fields
\* packed in byte_order, which need not be the byte order the magic announces.
HeaderData(magic, byte_order, major, minor, thiszone, sigfigs, snaplen, network) ==
    magic \o Pack16(byte_order, major) \o Pack16(byte_order, minor)
          \o PackS32(byte_order, thiszone) \o Pack32(byte_order, sigfigs)
          \o Pack32(byte_order, snaplen) \o Pack32(byte_order, network)

\* The two pcap magics, the nanosecond-pcap magic, a magic one bit off, zeros.
Magics == {MagicBig, MagicLittle, <<161, 178, 60, 77>>, <<212, 195, 178, 160>>, <<0, 0, 0, 0>>}

Majors == {2, 3}

Minors == {4, 0}

ThisZones == {U32(0), <<-1, 65535>>}

Sigfigs == {U32(0), <<65535, 65535>>}

Snaplens == {U32(0), U32(1), U32(65535), <<32767, 0>>}

Networks == {U32(1), <<32768, 0>>}

\* Headers of every kind, each followed by one record of 8 payload bytes.
HeaderCaptures ==
    {HeaderData(m, bo, major, minor, tz, sf, sl, nw) \o RecordsBytes(bo, 1000, <<<<1, "fill">>>>) :
        m \in Magics, bo \in {BigEndian, LittleEndian}, major \in Majors, minor \in Minors,
        tz \in ThisZones, sf \in Sigfigs, sl \in Snaplens, nw \in Networks}

RecordShapes == {<<1, "none">>, <<1, "fill">>, <<1, "fake">>, <<8, "stamp">>}

FirstSecs == {0, 1000}

PlanCaptures ==
    {Capture(bo, first, sh) : bo \in {BigEndian, LittleEndian}, first \in FirstSecs,
                              sh \in UNION {[1..n -> RecordShapes] : n \in 0..MaxRecords}}


MaxGaps == {10, 3600}

(***************************************************************************)
(* class Slicecap and main()                                               *)
(***************************************************************************)
VARIABLES
    pc,               \* where main() is
    error,            \* the exception main() died of, or "none"
    infile,           \* the bytes of options.infile
    options,          \* nslice, maxgap, npara
    file_header,      \* self._file_header
    size,             \* self._size
    slice_size,       \* self._slice_size
    tv_sec_anchor,    \* self._tv_sec_anchor
    tv_usec_anchor,   \* self._tv_usec_anchor
    offsets,          \* self._offsets
    sizes,            \* self._sizes
    slice_id,         \* _slice_id of the loop in guess_slice_offsets_and_sizes
    located,          \* the last call of _guess_offset_of_slice_id
    plans,            \* the outcomes of the planners run before on this file and options
    workers,          \* the pool's worker processes: chunk in hand and the locals of
                      \* _call_subcommand_for_slice_id for its first slice
    taskqueue,        \* chunks of slice ids that Pool.map has not handed out yet
    number_left,      \* chunks whose result Pool.map still waits for
    map_error,        \* the first exception Pool.map has received, or "none"
    task,             \* per slice: how far its _call_subcommand_for_slice_id call got
    cmd,              \* per slice: the shell command, "none", "running" or "exited"
    status,           \* per slice: the exit status of its command
    stdin,            \* per slice: the bytes written to _proc.stdin
    closed            \* per slice: no process holds the write end of the pipe

planvars == <<pc, error, infile, options, file_header, size, slice_size,
              tv_sec_anchor, tv_usec_anchor, offsets, sizes, slice_id, located, plans>>

poolvars == <<workers, taskqueue, number_left, map_error, task, cmd, status, stdin, closed>>

vars == <<planvars, poolvars>>

NoCall == [slice_id |-> -1, guess |-> 0, anchor |-> U32(0), result |-> -1]

shared_offsets == offsets

\* self._offsets = []: every planner starts with a list of its own.
fresh_offsets == << >>

\* Slicecap.__init__ with _unpack_file_header.  The division is the first
\* statement that can fail; the anchors and lists are initialised after it.
Construct ==
    /\ pc = "start"
    /\ size' = Len(infile)
    /\ LET unpacked == FileHeader_unpack_header(Slice(infile, 0, 24))
           first == Slice(infile, 24, 40)
           pph == Pkthdr_unpack_header(first, unpacked.hdr.byte_order)
       IN  IF options.nslice = 0
           THEN /\ pc' = "failed"
                /\ error' = "ZeroDivisionError"
                /\ file_header' = NewFileHeader
                /\ UNCHANGED <<slice_size, tv_sec_anchor, tv_usec_anchor, offsets, sizes>>
           ELSE /\ slice_size' = FloorDiv(Len(infile), options.nslice)
                /\ offsets' = fresh_offsets
                /\ sizes' = << >>
                /\ IF unpacked.error # "none"
                   THEN /\ pc' = "failed"
                        /\ error' = unpacked.error
                        /\ file_header' = NewFileHeader
                        /\ tv_sec_anchor' = U32(0)
                        /\ tv_usec_anchor' = U32(0)
                   ELSE /\ file_header' = unpacked.hdr
                        /\ IF Len(first) # 16
                           THEN /\ pc' = "failed"
                                /\ error' = "struct.error"
                                /\ tv_sec_anchor' = U32(0)
                                /\ tv_usec_anchor' = U32(0)
                           ELSE /\ pc' = "constructed"
                                /\ error' = "none"
                                /\ tv_sec_anchor' = pph.tv_sec
                                /\ tv_usec_anchor' = pph.tv_usec
    /\ UNCHANGED <<infile, options, slice_id, located, plans>>
    /\ UNCHANGED poolvars

skip_no_maxgap(pph, anchor, maxgap, snaplen) ==
    \/ U32Lt(pph.tv_sec, anchor)
    \/ U32Lt(snaplen, pph.caplen)

skip_no_caplen(pph, anchor, maxgap, snaplen) ==
    \/ U32Lt(pph.tv_sec, anchor)
    \/ U32Lt(U32Plus(anchor, maxgap), pph.tv_sec)

\* The three "continue" tests of the scan loop on one candidate: too early,
\* too far ahead, captured length over snaplen.
skip(pph, anchor, maxgap, snaplen) ==
    \/ U32Lt(pph.tv_sec, anchor)
    \/ U32Lt(U32Plus(anchor, maxgap), pph.tv_sec)
    \/ U32Lt(snaplen, pph.caplen)

RECURSIVE scan_after_guess(_, _, _, _, _, _)
scan_after_guess(data, off_diff, byte_order, anchor, maxgap, snaplen) ==
    IF off_diff >= Len(data) - 16
    THEN [found |-> FALSE, off_diff |-> off_diff, tv_sec |-> U32(0), tv_usec |-> U32(0)]
    ELSE LET pph == Pkthdr_unpack_header(Slice(data, off_diff, off_diff + 16), byte_order)
         IN  IF off_diff = 0 \/ skip(pph, anchor, maxgap, snaplen)
             THEN scan_after_guess(data, off_diff + 1, byte_order, anchor, maxgap, snaplen)
             ELSE [found |-> TRUE, off_diff |-> off_diff,
                   tv_sec |-> pph.tv_sec, tv_usec |-> pph.tv_usec]

\* The scan loop of _guess_offset_of_slice_id from candidate off_diff on: the
\* first candidate that is not skipped, with its timestamp, or found = FALSE.
RECURSIVE scan(_, _, _, _, _, _)
scan(data, off_diff, byte_order, anchor, maxgap, snaplen) ==
    IF off_diff >= Len(data) - 16
    THEN [found |-> FALSE, off_diff |-> off_diff, tv_sec |-> U32(0), tv_usec |-> U32(0)]
    ELSE LET pph == Pkthdr_unpack_header(Slice(data, off_diff, off_diff + 16), byte_order)
         IN  IF skip(pph, anchor, maxgap, snaplen)
             THEN scan(data, off_diff + 1, byte_order, anchor, maxgap, snaplen)
             ELSE [found |-> TRUE, off_diff |-> off_diff,
                   tv_sec |-> pph.tv_sec, tv_usec |-> pph.tv_usec]

\* Slicecap._guess_offset_of_slice_id(pfo, slice_id) on this planner.
guess_offset_of_slice_id(id) ==
    LET pcap_off_guess == id * slice_size
        data == Slice(infile, pcap_off_guess, pcap_off_guess + ToInt(file_header.snaplen) + 1000)
        hit == scan(data, 0, file_header.byte_order, tv_sec_anchor, options.maxgap,
                    file_header.snaplen)
    IN  [found |-> hit.found, off |-> pcap_off_guess + hit.off_diff,
         guess |-> pcap_off_guess, tv_sec |-> hit.tv_sec, tv_usec |-> hit.tv_usec]

\* One iteration of the loop of guess_slice_offsets_and_sizes.
LocateSlice ==
    /\ pc \in {"constructed", "planning"}
    /\ slice_id < options.nslice
    /\ \E r \in {guess_offset_of_slice_id(slice_id)} :
           /\ located' = [slice_id |-> slice_id, guess |-> r.guess, anchor |-> tv_sec_anchor,
                          result |-> IF r.found THEN r.off ELSE -1]
           /\ IF r.found
              THEN /\ tv_sec_anchor' = r.tv_sec
                   /\ tv_usec_anchor' = r.tv_usec
                   /\ offsets' = Append(offsets, r.off)
                   /\ sizes' = IF slice_id > 0
                               THEN Append(sizes, r.off - offsets[slice_id])
                               ELSE sizes
                   /\ slice_id' = slice_id + 1
                   /\ pc' = "planning"
                   /\ UNCHANGED error
              ELSE /\ pc' = "failed"
                   /\ error' = "ValueError"
                   /\ UNCHANGED <<tv_sec_anchor, tv_usec_anchor, offsets, sizes, slice_id>>
    /\ UNCHANGED <<infile, options, file_header, size, slice_size, plans>>
    /\ UNCHANGED poolvars

last_size_first == size - offsets[1]

last_size_one_more == size - offsets[Len(offsets)] + 1

\* self._size - self._offsets[-1]
last_size == size - offsets[Len(offsets)]

FinishPlan_whole_file ==
    /\ pc \in {"constructed", "planning"}
    /\ slice_id >= options.nslice
    /\ pc' = "planned"
    /\ sizes' = Append(sizes, IF offsets = << >> THEN size ELSE last_size)
    /\ UNCHANGED error
    /\ UNCHANGED <<infile, options, file_header, size, slice_size, tv_sec_anchor,
                   tv_usec_anchor, offsets, slice_id, located, plans>>
    /\ UNCHANGED poolvars

\* The statement after the loop of guess_slice_offsets_and_sizes.
FinishPlan ==
    /\ pc \in {"constructed", "planning"}
    /\ slice_id >= options.nslice
    /\ IF offsets = << >>
       THEN /\ pc' = "failed"
            /\ error' = "IndexError"
            /\ UNCHANGED sizes
       ELSE /\ pc' = "planned"
            /\ sizes' = Append(sizes, last_size)
            /\ UNCHANGED error
    /\ UNCHANGED <<infile, options, file_header, size, slice_size, tv_sec_anchor,
                   tv_usec_anchor, offsets, slice_id, located, plans>>
    /\ UNCHANGED poolvars

NoPlans == << >>

\* A second planner is made for the same file and options, as the tests do in
\* turn: the outcome of the first is kept, and Slicecap(options) starts anew.
PlanAgain ==
    /\ pc \in {"planned", "failed"}
    /\ plans = NoPlans
    /\ plans' = Append(plans, [pc |-> pc, error |-> error, offsets |-> offsets,
                                sizes |-> sizes])
    /\ pc' = "start"
    /\ error' = "none"
    /\ slice_id' = 0
    /\ located' = NoCall
    /\ UNCHANGED <<infile, options, file_header, size, slice_size, tv_sec_anchor,
                   tv_usec_anchor, offsets, sizes>>
    /\ UNCHANGED poolvars

(***************************************************************************)
(* call_subcommands: multiprocessing.Pool(_npara).map over the slice ids.  *)
(* Pool.map cuts the ids into chunks, a worker process calls the function  *)
(* on the ids of one chunk in turn, an exception ends the chunk, and map   *)
(* returns or re-raises the first exception once every chunk has reported. *)
(* Leaving the with block terminates the workers.                          *)
(***************************************************************************)
ReadSize == 8192

\* One record of ReadSize + 108 zero bytes: a slice longer than one read.
LongCapture ==
    GlobalHeaderBytes(MagicBig, BigEndian, 2, 4, 65535)
        \o PkthdrBytes(BigEndian, 0, ReadSize + 108) \o Repeat(0, ReadSize + 108)

Frags == 0..(Len(offsets) - 1)

DecimalValue == [s \in {"1", "2", "3", "4"} |-> CASE s = "1" -> 1 [] s = "2" -> 2
                                                  [] s = "3" -> 3 [] s = "4" -> 4]

\* os.cpu_count() of the host.
cpu_count == MaxCpu

NParas == {"auto"} \cup {s \in DOMAIN DecimalValue : DecimalValue[s] < MaxCpu}

\* The chunksize Pool.map derives for n items on procs workers.
chunksize(n, procs) ==
    LET q == n \div (procs * 4)
        extra == n % (procs * 4)
    IN  IF n = 0 THEN 0 ELSE IF extra # 0 THEN q + 1 ELSE q

\* Pool._get_tasks: range(n) cut into consecutive chunks of size cs.
get_tasks(n, cs) ==
    IF n = 0 THEN << >>
    ELSE [k \in 1..((n + cs - 1) \div cs) |->
             [j \in 1..(Min(k * cs, n) - (k - 1) * cs) |-> (k - 1) * cs + j - 1]]

IdleWorker == [chunk |-> << >>, at |-> "idle", pos |-> 0, data_left |-> 0]

\* The slice a busy worker is calling _call_subcommand_for_slice_id for.
SliceOf(w) == Head(workers[w].chunk)

dispatch_ready_while_planning == pc \in {"planning", "planned"}

\* main() calls call_subcommands once guess_slice_offsets_and_sizes has returned.
dispatch_ready == pc = "planned"

\* main() enters call_subcommands: the pool is created and map submits the chunks.
StartPool ==
    /\ dispatch_ready
    /\ pc' = "mapping"
    /\ LET procs == IF options.npara = "auto" THEN cpu_count
                     ELSE DecimalValue[options.npara]
       IN  /\ workers' = [w \in 1..procs |-> IdleWorker]
           /\ taskqueue' = get_tasks(Len(offsets), chunksize(Len(offsets), procs))
           /\ number_left' = Len(get_tasks(Len(offsets), chunksize(Len(offsets), procs)))
    /\ task' = [i \in Frags |-> "pending"]
    /\ cmd' = [i \in Frags |-> "none"]
    /\ status' = [i \in Frags |-> 0]
    /\ stdin' = [i \in Frags |-> << >>]
    /\ closed' = [i \in Frags |-> FALSE]
    /\ UNCHANGED <<error, infile, options, file_header, size, slice_size, tv_sec_anchor,
                   tv_usec_anchor, offsets, sizes, slice_id, located, plans, map_error>>

\* An idle worker takes the next chunk from the task queue.
TakeChunk(w) ==
    /\ pc = "mapping"
    /\ workers[w].at = "idle"
    /\ taskqueue # << >>
    /\ workers' = [workers EXCEPT ![w] = [IdleWorker EXCEPT !.chunk = Head(taskqueue),
                                                            !.at = "popen"]]
    /\ taskqueue' = Tail(taskqueue)
    /\ UNCHANGED <<planvars, number_left, map_error, task, cmd, status, stdin, closed>>

\* subprocess.Popen(_subcmd, stdin=PIPE, shell=True): the shell is started.
Popen(w) ==
    /\ pc = "mapping"
    /\ workers[w].at = "popen"
    /\ cmd' = [cmd EXCEPT ![SliceOf(w)] = "running"]
    /\ task' = [task EXCEPT ![SliceOf(w)] = "called"]
    /\ workers' = [workers EXCEPT ![w].at = "header"]
    /\ UNCHANGED <<planvars, taskqueue, number_left, map_error, status, stdin, closed>>

\* _proc.stdin.write(pack_header()), then the source is opened and positioned.
\* The 24 bytes stay in the stream's buffer, so this write cannot fail.
WriteHeader(w) ==
    /\ pc = "mapping"
    /\ workers[w].at = "header"
    /\ stdin' = [stdin EXCEPT ![SliceOf(w)] = @ \o pack_header(file_header)]
    /\ workers' = [workers EXCEPT ![w].at = "copy",
                                  ![w].pos = offsets[SliceOf(w) + 1],
                                  ![w].data_left = sizes[SliceOf(w) + 1]]
    /\ UNCHANGED <<planvars, taskqueue, number_left, map_error, task, cmd, status, closed>>

\* The call for the first slice of w's chunk ends with an exception: mapstar
\* drops the rest of the chunk and the chunk reports the exception.
Raised(w) ==
    /\ task' = [i \in Frags |->
                   IF i = SliceOf(w) THEN "raised"
                   ELSE IF \E k \in 2..Len(workers[w].chunk) : workers[w].chunk[k] = i
                        THEN "skipped" ELSE task[i]]
    /\ workers' = [workers EXCEPT ![w] = IdleWorker]
    /\ number_left' = number_left - 1
    /\ map_error' = IF map_error = "none" THEN "BrokenPipeError" ELSE map_error

\* The call for the first slice of w's chunk returns: the next slice of the
\* chunk is called, or the chunk reports success.
Returned(w) ==
    /\ task' = [task EXCEPT ![SliceOf(w)] = "returned"]
    /\ IF Len(workers[w].chunk) > 1
       THEN /\ workers' = [workers EXCEPT ![w] = [IdleWorker EXCEPT
                                                     !.chunk = Tail(workers[w].chunk),
                                                     !.at = "popen"]]
            /\ UNCHANGED number_left
       ELSE /\ workers' = [workers EXCEPT ![w] = IdleWorker]
            /\ number_left' = number_left - 1
    /\ UNCHANGED map_error

more_to_copy_full_reads(data_left) == data_left > ReadSize

\* The condition of the while loop.
more_to_copy(data_left) == data_left > 0

\* One iteration of the while loop: read up to ReadSize bytes and write them.
\* Writing to a pipe whose reader has exited raises BrokenPipeError.
CopyChunk(w) ==
    /\ pc = "mapping"
    /\ workers[w].at = "copy"
    /\ more_to_copy(workers[w].data_left)
    /\ LET want == IF workers[w].data_left > ReadSize THEN ReadSize ELSE workers[w].data_left
           data == Slice(infile, workers[w].pos, workers[w].pos + want)
       IN  IF cmd[SliceOf(w)] = "exited" /\ data # << >>
           THEN /\ Raised(w)
                /\ UNCHANGED stdin
           ELSE /\ stdin' = [stdin EXCEPT ![SliceOf(w)] = @ \o data]
                /\ workers' = [workers EXCEPT ![w].pos = @ + Len(data),
                                              ![w].data_left = @ - Len(data)]
                /\ UNCHANGED <<number_left, map_error, task>>
    /\ UNCHANGED <<planvars, taskqueue, cmd, status, closed>>

\* The loop has ended: _proc.stdin.flush(), and the call returns.
Flush(w) ==
    /\ pc = "mapping"
    /\ workers[w].at = "copy"
    /\ ~more_to_copy(workers[w].data_left)
    /\ IF cmd[SliceOf(w)] = "exited" THEN Raised(w) ELSE Returned(w)
    /\ UNCHANGED <<planvars, taskqueue, cmd, status, stdin, closed>>

ExitCodes == {0, 1}

\* The command of slice i exits, whenever it likes, with some status.
CmdExit(i) ==
    /\ i \in DOMAIN cmd
    /\ cmd[i] = "running"
    /\ cmd' = [cmd EXCEPT ![i] = "exited"]
    /\ \E code \in ExitCodes : status' = [status EXCEPT ![i] = code]
    /\ UNCHANGED <<planvars, workers, taskqueue, number_left, map_error, task, stdin, closed>>

\* Every chunk has reported: map returns or raises, the with block terminates
\* the pool, whose workers held the write ends of the pipes, and main() ends.
MapReturn ==
    /\ pc = "mapping"
    /\ number_left = 0
    /\ closed' = [i \in Frags |-> cmd[i] # "none"]
    /\ pc' = IF map_error = "none" THEN "done" ELSE "failed"
    /\ error' = map_error
    /\ UNCHANGED <<infile, options, file_header, size, slice_size, tv_sec_anchor,
                   tv_usec_anchor, offsets, sizes, slice_id, located, plans>>
    /\ UNCHANGED <<workers, taskqueue, number_left, map_error, task, cmd, status, stdin>>

(***************************************************************************)
(* Runs.                                                                   *)
(***************************************************************************)
NSlices == -1..MaxNslice

StartState(captures, nslices, maxgaps, nparas) ==
    /\ pc = "start"
    /\ error = "none"
    /\ infile \in captures
    /\ options \in [nslice : nslices, maxgap : maxgaps, npara : nparas]
    /\ file_header = NewFileHeader
    /\ size = 0
    /\ slice_size = 0
    /\ tv_sec_anchor = U32(0)
    /\ tv_usec_anchor = U32(0)
    /\ offsets = << >>
    /\ sizes = << >>
    /\ slice_id = 0
    /\ located = NoCall
    /\ plans = NoPlans
    /\ workers = << >>
    /\ taskqueue = << >>
    /\ number_left = 0
    /\ map_error = "none"
    /\ task = << >>
    /\ cmd = << >>
    /\ status = << >>
    /\ stdin = << >>
    /\ closed = << >>

\* The planner alone, as the tests drive it: construct, then plan.
InitPlan == StartState(PlanCaptures, NSlices, MaxGaps, {"auto"})

NextPlan == Construct \/ LocateSlice \/ FinishPlan

SpecPlan == InitPlan /\ [][NextPlan]_vars

\* Two planners in turn on one file and one set of options.
InitTwice ==
    StartState({Capture(BigEndian, first, sh) :
                    first \in FirstSecs,
                    sh \in UNION {[1..n -> RecordShapes] : n \in 0..MaxRecords}},
               NSlices, MaxGaps, {"auto"})

NextTwice == Construct \/ LocateSlice \/ FinishPlan \/ PlanAgain

SpecTwice == InitTwice /\ [][NextTwice]_vars

\* main() on captures with global headers of every kind, as one slice.
InitHeader == StartState(HeaderCaptures, {1}, {3600}, {"1"})

\* n records of 10 payload bytes fill each, one second apart from sec on.
RECURSIVE MinimalRecords(_, _, _)
MinimalRecords(sec, n, fill) ==
    IF n = 0 THEN << >>
    ELSE PkthdrBytes(BigEndian, sec, 10) \o Repeat(fill, 10)
            \o MinimalRecords(sec + 1, n - 1, fill)

\* Big-endian captures, version 2.4, snaplen 65535, network 1, of 6 such records.
ScenarioCaptures ==
    {GlobalHeaderBytes(MagicBig, BigEndian, 2, 4, 65535) \o MinimalRecords(first, 6, fill) :
        first \in {0, 1000, 1700000000}, fill \in {0, 255}}

\* main() cutting such a capture into 3 slices with the default maxgap.
InitScenario == StartState(ScenarioCaptures, {3}, {3600}, NParas)

\* main(): construct, plan, dispatch.
FourRecords ==
    Capture(BigEndian, 1000, <<<<1, "fill">>, <<1, "fill">>, <<1, "fill">>, <<1, "fill">>>>)

Captures ==
    {FourRecords,
     Capture(BigEndian, 1000, <<<<1, "none">>, <<1, "fake">>, <<8, "fill">>>>),
     Capture(LittleEndian, 0, <<<<1, "fill">>, <<1, "none">>>>)}

\* Two records behind a header with version 2.0 and behind one with no magic.
RejectedCaptures ==
    {HeaderData(MagicBig, BigEndian, 2, 0, U32(0), U32(0), U32(65535), U32(1))
        \o RecordsBytes(BigEndian, 1000, <<<<1, "fill">>, <<1, "fill">>>>),
     HeaderData(<<0, 0, 0, 0>>, BigEndian, 2, 4, U32(0), U32(0), U32(65535), U32(1))
        \o RecordsBytes(BigEndian, 1000, <<<<1, "fill">>, <<1, "fill">>>>)}

\* Short captures cut into up to three slices on any pool, a capture cut into
\* more slices than four times the workers, a slice longer than one read, and
\* captures whose global header is rejected.
Init ==
    \/ StartState(Captures, -2..3, {10}, NParas)
    \/ StartState({FourRecords}, {5}, {3600}, {"1"})
    \/ StartState({LongCapture}, {1, 2}, {3600}, {"1"})
    \/ StartState(RejectedCaptures, {0, 2}, {10}, {"1"})

Next ==
    \/ Construct
    \/ LocateSlice
    \/ FinishPlan
    \/ StartPool
    \/ \E w \in DOMAIN workers : TakeChunk(w)
    \/ \E w \in DOMAIN workers : Popen(w)
    \/ \E w \in DOMAIN workers : WriteHeader(w)
    \/ \E w \in DOMAIN workers : CopyChunk(w)
    \/ \E w \in DOMAIN workers : Flush(w)
    \/ \E i \in DOMAIN cmd : CmdExit(i)
    \/ MapReturn

Spec == Init /\ [][Next]_vars

SpecHeader == InitHeader /\ [][Next]_vars

SpecScenario == InitScenario /\ [][Next]_vars

\* main() and every worker process keep running; a command may never exit.
WorkerStep(w) ==
    /\ w \in DOMAIN workers
    /\ (TakeChunk(w) \/ Popen(w) \/ WriteHeader(w) \/ CopyChunk(w) \/ Flush(w))

MainStep == Construct \/ LocateSlice \/ FinishPlan \/ StartPool \/ MapReturn

InitFair ==
    \/ StartState({FourRecords}, {2, 3}, {10}, NParas)
    \/ StartState({LongCapture}, {1}, {3600}, {"1"})

SpecFair ==
    /\ InitFair
    /\ [][Next]_vars
    /\ WF_vars(MainStep)
    /\ \A w \in 1..MaxCpu : WF_vars(WorkerStep(w))

(***************************************************************************)
(* Properties of the planner.                                              *)
(***************************************************************************)
\* The pkthdr a reader sees at file offset off.
CandidateAt(off) == Pkthdr_unpack_header(Slice(infile, off, off + 16), file_header.byte_order)

\* The candidate at off is no earlier than the anchor, at most maxgap seconds
\* after it, and its caplen is at most snaplen.
PassesChecks(off, anchor) ==
    LET c == CandidateAt(off)
    IN  /\ ~U32Lt(c.tv_sec, anchor)
        /\ ~U32Lt(U32Plus(anchor, options.maxgap), c.tv_sec)
        /\ ~U32Lt(file_header.snaplen, c.caplen)

\* The offsets at which a whole pkthdr lies inside the window read at guess.
WindowCandidates(guess) ==
    guess..(Min(size, guess + ToInt(file_header.snaplen) + 1000) - 16)

\* C1: the offset a call of _guess_offset_of_slice_id returns is a candidate of
\* its window that passes the timestamp and caplen checks against the anchor the
\* call started from, and a call whose window holds no passing candidate ends
\* in the ValueError instead of an offset.
C1_BoundaryRejection ==
    located.slice_id >= 0 =>
        /\ located.result >= 0 =>
              /\ located.result \in WindowCandidates(located.guess)
              /\ PassesChecks(located.result, located.anchor)
        /\ (\A off \in WindowCandidates(located.guess) : ~PassesChecks(off, located.anchor))
              => (located.result = -1 /\ pc = "failed" /\ error = "ValueError")

\* A call failed although its window held a candidate with an acceptable
\* timestamp, which only the caplen check turned down.
C1_Witness ==
    /\ located.result = -1
    /\ error = "ValueError"
    /\ \E off \in WindowCandidates(located.guess) :
          LET c == CandidateAt(off)
          IN  /\ ~U32Lt(c.tv_sec, located.anchor)
              /\ ~U32Lt(U32Plus(located.anchor, options.maxgap), c.tv_sec)
              /\ U32Lt(file_header.snaplen, c.caplen)

\* C19: a call of _guess_offset_of_slice_id examines every offset of its window
\* at which 16 bytes fit, the last one (window length - 16) included: it fails
\* only when none of them passes the checks, it returns no offset outside them,
\* and it fails when the window is shorter than 16 bytes.
C19_WholeWindowExamined ==
    located.slice_id >= 0 =>
        /\ located.result = -1 =>
              \A off \in WindowCandidates(located.guess) : ~PassesChecks(off, located.anchor)
        /\ located.result >= 0 => located.result \in WindowCandidates(located.guess)
        /\ WindowCandidates(located.guess) = {} => located.result = -1

\* C18: a call of _guess_offset_of_slice_id that succeeds returns the first
\* offset from its guess on whose candidate passes the three checks against the
\* anchor the call started from, and leaves that candidate's tv_sec and tv_usec
\* as the anchor.
C18_FirstPassingCandidate ==
    (located.slice_id >= 0 /\ located.result >= 0) =>
        /\ located.result >= located.guess
        /\ PassesChecks(located.result, located.anchor)
        /\ \A off \in located.guess..(located.result - 1) : ~PassesChecks(off, located.anchor)
        /\ tv_sec_anchor = CandidateAt(located.result).tv_sec
        /\ tv_usec_anchor = CandidateAt(located.result).tv_usec

\* A call passed over candidates before it accepted one, and the accepted
\* candidate changed both halves of the anchor.
C18_Witness ==
    /\ located.slice_id >= 1
    /\ located.result > located.guess
    /\ tv_sec_anchor # located.anchor
    /\ tv_usec_anchor # CandidateAt(24).tv_usec

\* C20: the anchor of a constructed planner is the timestamp of the record
\* header at byte 24; no step lowers its tv_sec; a locate call that succeeds
\* raises the tv_sec by at most maxgap, and one that fails leaves tv_sec and
\* tv_usec as they were.
C20_AnchorMonotone ==
    /\ [](pc = "constructed" =>
             /\ tv_sec_anchor = CandidateAt(24).tv_sec
             /\ tv_usec_anchor = CandidateAt(24).tv_usec)
    /\ [][pc # "start" => ~U32Lt(tv_sec_anchor', tv_sec_anchor)]_vars
    /\ [][located' # located =>
             /\ located'.anchor = tv_sec_anchor
             /\ ~U32Lt(U32Plus(tv_sec_anchor, options.maxgap), tv_sec_anchor')
             /\ located'.result = -1 =>
                    (tv_sec_anchor' = tv_sec_anchor /\ tv_usec_anchor' = tv_usec_anchor)]_vars

\* Locate calls have raised the anchor above the first record's timestamp, and
\* a later call has failed.
C20_Witness ==
    /\ located.slice_id >= 2
    /\ located.result = -1
    /\ U32Lt(CandidateAt(24).tv_sec, tv_sec_anchor)
    /\ tv_usec_anchor # CandidateAt(24).tv_usec

\* The number of records from offset off on that are whole, have caplen at
\* most snaplen and follow their predecessor (timestamp prev) by 0..maxgap seconds.
RECURSIVE ValidRecords(_, _)
ValidRecords(off, prev) ==
    IF off + 16 > size THEN 0
    ELSE IF U32Lt(CandidateAt(off).tv_sec, prev)
            \/ U32Lt(U32Plus(prev, options.maxgap), CandidateAt(off).tv_sec)
            \/ U32Lt(file_header.snaplen, CandidateAt(off).caplen)
            \/ off + 16 + ToInt(CandidateAt(off).caplen) > size
    THEN 0
    ELSE 1 + ValidRecords(off + 16 + ToInt(CandidateAt(off).caplen), CandidateAt(off).tv_sec)

Planned == pc = "planned" /\ options.nslice >= 1

\* C2: a plan for N slices of a capture with at least N valid records spaced
\* within maxgap has strictly increasing offsets.
C2_StrictlyIncreasing ==
    (Planned /\ ValidRecords(24, CandidateAt(24).tv_sec) >= options.nslice)
        => \A i \in 1..(Len(offsets) - 1) : offsets[i] < offsets[i + 1]

\* C3: no offset of a plan lies inside the 24-byte global header.
C3_AfterGlobalHeader ==
    Planned => \A i \in 1..Len(offsets) : offsets[i] >= 24

\* C4: a plan for N >= 1 slices has N offsets and N sizes, every size but the
\* last is the distance to the next offset, the last is the rest of the file,
\* and the sizes add up to the file size minus the first offset.
C4_PlanShape ==
    Planned =>
        /\ Len(offsets) = options.nslice
        /\ Len(sizes) = options.nslice
        /\ \A i \in 1..(Len(offsets) - 1) : sizes[i] = offsets[i + 1] - offsets[i]
        /\ sizes[Len(sizes)] = size - offsets[Len(offsets)]
        /\ Sum(sizes) = size - offsets[1]

\* A plan of at least three slices, two of which differ in size.
C4_Witness ==
    /\ Planned
    /\ options.nslice >= 3
    /\ \E i, j \in 1..Len(sizes) : sizes[i] # sizes[j]

\* C10: when locating a slice fails, the planner holds no offsets and no sizes.
C10_NoPartialPlan ==
    (pc = "failed" /\ error = "ValueError" /\ located.result = -1)
        => (offsets = << >> /\ sizes = << >>)

\* The 24 bytes at the head of data do not start with one of the two magics, or
\* the four bytes behind the magic are not the version 2.4 in its byte order.
HeaderRejected(data) ==
    \/ SubSeq(data, 1, 4) \notin {<<161, 178, 195, 212>>, <<212, 195, 178, 161>>}
    \/ SubSeq(data, 1, 4) = <<161, 178, 195, 212>> /\ SubSeq(data, 5, 8) # <<0, 2, 0, 4>>
    \/ SubSeq(data, 1, 4) = <<212, 195, 178, 161>> /\ SubSeq(data, 5, 8) # <<2, 0, 4, 0>>

NoCommand == \A i \in DOMAIN cmd : cmd[i] = "none"

\* C11: the slices are located one after the other in the order 0, 1, ..., N-1;
\* a command is started only when all N slices are located; and a run whose
\* global header is rejected or in which a slice cannot be located has failed
\* without starting any command.
C11_LocateThenDispatch ==
    /\ [][located' # located =>
             /\ located'.slice_id = located.slice_id + 1
             /\ located'.slice_id = Len(offsets)
             /\ located'.slice_id < options.nslice
             /\ NoCommand]_vars
    /\ [](~NoCommand =>
             /\ Len(offsets) = options.nslice
             /\ located.slice_id = options.nslice - 1
             /\ located.result = offsets[Len(offsets)])
    /\ []((\/ pc # "start" /\ HeaderRejected(infile)
           \/ located.slice_id >= 0 /\ located.result = -1)
             => (pc = "failed" /\ NoCommand))

\* Two slices were located, the third could not be, and no command was started.
C11_Witness ==
    /\ pc = "failed"
    /\ located.slice_id = 2
    /\ located.result = -1
    /\ Len(offsets) = 2
    /\ cmd = << >>

C16_NoSlicesNoPlan ==
    /\ [](options.nslice <= 0 =>
             /\ pc \in {"start", "constructed", "failed"}
             /\ offsets = << >>
             /\ sizes = << >>
             /\ cmd = << >>
             /\ pc = "failed" =>
                    \/ options.nslice = 0 /\ error = "ZeroDivisionError"
                    \/ options.nslice < 0 /\ error = "IndexError"
                    \/ options.nslice < 0 /\ error = "ValueError" /\ HeaderRejected(infile))
    /\ [][(options.nslice <= 0 /\ pc' # pc) =>
             \/ pc' = "failed"
             \/ pc' = "constructed" /\ options.nslice < 0]_vars

\* A planner for fewer than 0 slices has failed on the last offset.
C16_Witness ==
    /\ options.nslice < -1
    /\ pc = "failed"
    /\ error = "IndexError"
    /\ size > 0

(***************************************************************************)
(* Properties of the global header.                                        *)
(***************************************************************************)
\* unpack_header has been called on the first 24 bytes of infile.
Unpacked == pc # "start"

\* The construction ended in the ValueError, before any locate call.
FormatError == pc = "failed" /\ error = "ValueError" /\ located = NoCall

\* C13: unpack_header raises the ValueError exactly when the 24 bytes do not
\* start with a1 b2 c3 d4 or d4 c3 b2 a1 or their version is not 2.4, whatever
\* the other fields are; otherwise it succeeds, big-endian for a1 b2 c3 d4 and
\* little-endian for d4 c3 b2 a1.
C13_FormatErrorExactly ==
    Unpacked =>
        /\ FormatError <=> HeaderRejected(infile)
        /\ ~HeaderRejected(infile) =>
              /\ error # "struct.error"
              /\ file_header.magic = SubSeq(infile, 1, 4)
              /\ file_header.byte_order =
                     (IF SubSeq(infile, 1, 4) = <<161, 178, 195, 212>> THEN "!" ELSE "<")
              /\ file_header.version_major = 2
              /\ file_header.version_minor = 4

\* A header with the little-endian magic whose version reads 2.4 in big-endian
\* order only was rejected.
C13_Witness ==
    /\ FormatError
    /\ SubSeq(infile, 1, 4) = <<212, 195, 178, 161>>
    /\ SubSeq(infile, 5, 8) = <<0, 2, 0, 4>>

\* C14: the 24 bytes pack_header writes to a command decode to a header equal
\* to the planner's header in every field: magic, byte order, version,
\* thiszone, sigfigs, snaplen, network.
C14_RoundTrip ==
    \A i \in DOMAIN stdin :
        Len(stdin[i]) >= 24 =>
            FileHeader_unpack_header(SubSeq(stdin[i], 1, 24))
                = [error |-> "none", hdr |-> file_header]

\* A little-endian header with a negative thiszone and a declared snaplen of 0
\* was written to a command.
C14_Witness ==
    /\ \E i \in DOMAIN stdin : Len(stdin[i]) >= 24
    /\ file_header.byte_order = LittleEndian
    /\ file_header.thiszone = <<-1, 65535>>
    /\ file_header.network = <<32768, 0>>
    /\ SubSeq(infile, 17, 20) = <<0, 0, 0, 0>>

\* The snaplen field of the 24 bytes, read in the byte order of the magic.
DeclaredSnaplen ==
    IF SubSeq(infile, 1, 4) = <<161, 178, 195, 212>>
    THEN <<infile[17] * 256 + infile[18], infile[19] * 256 + infile[20]>>
    ELSE <<infile[20] * 256 + infile[19], infile[18] * 256 + infile[17]>>

\* C15: after unpack_header has succeeded the snaplen is positive: 9000 when
\* the header declares 0, the declared value otherwise.
C15_EffectiveSnaplen ==
    (Unpacked /\ ~HeaderRejected(infile)) =>
        /\ U32Lt(<<0, 0>>, file_header.snaplen)
        /\ DeclaredSnaplen = <<0, 0>> => file_header.snaplen = <<0, 9000>>
        /\ DeclaredSnaplen # <<0, 0>> => file_header.snaplen = DeclaredSnaplen

\* A header that declares snaplen 0 was unpacked, and the slice was located
\* with the window of the default snaplen.
C15_Witness ==
    /\ Unpacked
    /\ ~HeaderRejected(infile)
    /\ DeclaredSnaplen = <<0, 0>>
    /\ file_header.snaplen = <<0, 9000>>
    /\ located.result >= 0

(***************************************************************************)
(* Properties of the streams a pcap reader gets.                           *)
(***************************************************************************)
\* The tv_sec of the record headers a pcap reader meets in stream from pos on,
\* each record being its 16-byte header and caplen bytes.
RECURSIVE ReadRecords(_, _, _)
ReadRecords(stream, pos, byte_order) ==
    IF pos + 16 > Len(stream) THEN << >>
    ELSE LET pph == Pkthdr_unpack_header(SubSeq(stream, pos + 1, pos + 16), byte_order)
         IN  <<pph.tv_sec>> \o
                 (IF pph.caplen[1] > 0 THEN << >>
                  ELSE ReadRecords(stream, pos + 16 + ToInt(pph.caplen), byte_order))

\* What a reader of the bytes given to the command of slice i decodes.
Redecoded(i) ==
    LET unpacked == FileHeader_unpack_header(Slice(stdin[i], 0, 24))
    IN  [error |-> unpacked.error,
         secs |-> ReadRecords(stdin[i], 24, unpacked.hdr.byte_order)]

NonDecreasing(secs) == \A k \in 1..(Len(secs) - 1) : ~U32Lt(secs[k + 1], secs[k])

\* C17: when the capture of 6 minimal records is cut into 3 slices with maxgap
\* 3600 and every command has got its input, each of the 3 streams decodes to a
\* valid global header and to record headers whose tv_sec never decreases,
\* neither inside a stream nor from the last record of one stream to the first
\* of the next.
C17_ScenarioStreams ==
    (pc = "done" /\ infile \in ScenarioCaptures) =>
        /\ DOMAIN stdin = 0..2
        /\ \A i \in DOMAIN stdin :
              /\ Redecoded(i).error = "none"
              /\ Redecoded(i).secs # << >>
              /\ NonDecreasing(Redecoded(i).secs)
        /\ \A i \in 0..1 :
              ~U32Lt(Redecoded(i + 1).secs[1],
                     Redecoded(i).secs[Len(Redecoded(i).secs)])

(***************************************************************************)
(* Properties of the dispatch.                                             *)
(***************************************************************************)
\* What the command of slice i is meant to read: the packed global header and
\* the bytes [offset, offset + size) of the source.
FullStream(i) ==
    pack_header(file_header) \o Slice(infile, offsets[i + 1], offsets[i + 1] + sizes[i + 1])

Dispatched == pc \in {"done", "failed"} /\ DOMAIN task # {}

\* C5: when the call for a slice has returned, the bytes written to its command
\* are the 24-byte header followed by the bytes [offset, offset + size) of the
\* source, 24 + size bytes in all.
C5_ExactStream ==
    \A i \in DOMAIN task :
        task[i] = "returned" =>
            /\ stdin[i] = FullStream(i)
            /\ Len(stdin[i]) = 24 + sizes[i + 1]

\* C6: after the dispatch, whenever the call for one slice raised, the command
\* of every other slice was started, and has its whole input unless its own
\* call raised.
C6_DispatchIsolation ==
    Dispatched =>
        \A i, j \in DOMAIN task :
            (i # j /\ task[i] = "raised") =>
                /\ cmd[j] # "none"
                /\ task[j] \in {"returned", "raised"}
                /\ task[j] = "returned" => stdin[j] = FullStream(j)

\* C7: the commands that are started and have not exited never outnumber the
\* workers of the pool.
C7_BoundedParallelism ==
    Cardinality({i \in DOMAIN cmd : cmd[i] = "running"}) <= Len(workers)

\* C8: a run in which a command has exited with a non-zero status does not
\* go on to report success.
C8_FailureReported ==
    [][(pc = "mapping" /\ \E i \in DOMAIN cmd : cmd[i] = "exited" /\ status[i] # 0)
          => pc' # "done"]_vars

OpenPipe == \E i \in DOMAIN cmd : cmd[i] # "none" /\ ~closed[i]

Copying(w) ==
    /\ w \in DOMAIN workers
    /\ workers[w].at = "copy"
    /\ workers[w].data_left > 0

\* C21: every slice of a plan ends at or before the end of the file; while
\* bytes are left to write the copy loop reads before the end of the file and
\* within the slice; one step writes at most 8192 bytes; and the loop ends:
\* a worker with bytes left to write gets to have none left, or leaves the
\* loop by the exception of a write.
C21_CopyLoopTerminates ==
    /\ []((pc \in {"planned", "mapping", "done"} /\ Len(sizes) = Len(offsets)) =>
             \A i \in 1..Len(offsets) : offsets[i] + sizes[i] <= size)
    /\ [](\A w \in DOMAIN workers :
             Copying(w) =>
                /\ workers[w].pos < size
                /\ workers[w].pos + workers[w].data_left <= size
                /\ workers[w].pos + workers[w].data_left
                      = offsets[SliceOf(w) + 1] + sizes[SliceOf(w) + 1])
    /\ [][\A i \in DOMAIN stdin : Len(stdin'[i]) - Len(stdin[i]) <= 8192]_vars
    /\ \A w \in 1..MaxCpu : Copying(w) ~> ~Copying(w)

\* A worker has written a slice in more than one read and has nothing left.
C21_Witness ==
    \E w \in DOMAIN workers :
        /\ workers[w].at = "copy"
        /\ workers[w].data_left = 0
        /\ Len(stdin[SliceOf(w)]) > 24 + 8192
        /\ workers[w].pos = offsets[SliceOf(w) + 1] + sizes[SliceOf(w) + 1]

====
